---- MODULE Spec2Model ----
(***************************************************************************)
(* A model of the inky e-ink driver: the EEPROM identity decoder and its   *)
(* acquisition loop (src/src/eeprom.rs) and the panel controller with its  *)
(* canvas (src/src/inky.rs).                                               *)
(*                                                                         *)
(* Five groups of variables share the module:                              *)
(*   - the controller (Spec, FairSpec): one Inky value, its GPIO lines,    *)
(*     the SPI bus trace and the panel's busy line;                        *)
(*   - the acquisition loop EEPROM::try_new_tries (SpecEeprom);            *)
(*   - the decoder TryFrom<&[u8]> for EEPROM as a pure function, with    *)
(*     the encoder From<EEPROM> for Vec<u8> applied to what it returns     *)
(*     (SpecDecode);                                                       *)
(*   - one PascalString under its public operations (SpecPascal);          *)
(*   - one Canvas under get_pixel, set_pixel and pack (SpecCanvas).        *)
(***************************************************************************)
EXTENDS Integers, Sequences, FiniteSets, TLC

VARIABLES
    \* ---- controller (inky.rs) ----
    overflow_checks, \* build profile: TRUE = arithmetic overflow panics
    eeprom,          \* the identity record handed to Inky::try_from
    inky,            \* "none" | "ok" | "failed": is there a controller value
    canvas,          \* Canvas {width, height, pixels}
    reset,           \* level of the reset OutputPin
    dc,              \* level of the data/command OutputPin
    busy,            \* level of the panel's busy line (TRUE = asserted)
    armed,           \* a falling-edge interrupt is configured on busy
    pending,         \* an edge event is cached for the configured interrupt
    call,            \* the call in progress: [op, pc, bw_buf]
    result,          \* result of the last finished call
    trace,           \* what the current (or the last) call did, in order
    panel_last,      \* the last of SoftReset, TriggerDisplayUpdate and
                     \* EnterDeepSleep the panel has received (0: none yet)
    \* ---- acquisition (eeprom.rs, try_new_tries) ----
    e_max_tries,     \* the argument max_tries
    e_pc,            \* "idle" | "write" | "read" | "done"
    e_i,             \* loop iterations started
    e_addr,          \* the slave address set on the I2C bus
    e_log,           \* I2C bus accesses and sleeps, in order
    e_result,        \* [tag |-> "none" | "ok" | "err" | "panic", ...]
    \* ---- decoder (eeprom.rs, TryFrom<&[u8]> for EEPROM) ----
    d_buf,           \* the input slice
    d_out,           \* [tag |-> "none" | "ok" | "err" | "panic", ...]
    d_enc,           \* the bytes the encoder gives for the decoded record
    d_back,          \* the result of decoding d_enc
    \* ---- PascalString (eeprom.rs) ----
    p_in,            \* the slice the string is constructed from
    p_str,           \* the string: NoResult before construction, Ok(s),
                     \* Err(_) or Panic(_)
    p_ops,           \* set_capacity / set_data calls made on it
    \* ---- Canvas (inky.rs) ----
    c_canvas,        \* Canvas {width, height, pixels}
    c_out,           \* the last get_pixel / set_pixel / pack and its outcome
    c_paints         \* set_pixel calls made on it

ctlVars == <<eeprom, inky, canvas, reset, dc, busy, armed, pending, call,
             result, trace, panel_last>>
eVars == <<e_max_tries, e_pc, e_i, e_addr, e_log, e_result>>
dVars == <<d_buf, d_out, d_enc, d_back>>
pVars == <<p_in, p_str, p_ops>>
cVars == <<c_canvas, c_out, c_paints>>
vars == <<overflow_checks, ctlVars, eVars, dVars, pVars, cVars>>

(***************************************************************************)
(* Bounds of the model.                                                    *)
(***************************************************************************)
MaxTries == 3

\* set_capacity / set_data calls made on one PascalString
MaxStringOps == 2

\* set_pixel calls that succeed on one Canvas
MaxPaints == 1

(***************************************************************************)
(* Small helpers.                                                          *)
(***************************************************************************)
Min(a, b) == IF a < b THEN a ELSE b

\* u16::to_le_bytes
to_le_bytes(x) == <<x % 256, (x \div 256) % 256>>

\* The two bytes taken as a big-endian word
from_le_bytes_BigEndian(lo, hi) == hi + 256 * lo

\* u16::from_le_bytes
from_le_bytes(lo, hi) == lo + 256 * hi

\* `x as u8` of a usize that may have wrapped below zero
as_u8(x) == ((x % 256) + 256) % 256

(***************************************************************************)
(* Command codes (enum Command).                                           *)
(***************************************************************************)
DataEntryMode == 17
DisplayUpdateSequence == 34
DummyLinePeriod == 58
EnterDeepSleep == 16
GSTransition == 60
GateDrivingVoltage == 3
GateLineWidth == 59
GateSetting == 1
SetAnalogBlockControl == 116
SetDigitalBlockControl == 126
SetLUT == 50
SetRamXPointerStart == 78
SetRamXStartEnd == 68
SetRamYPointerStart == 79
SetRamYStartEnd == 69
SoftReset == 18
SourceDrivingVoltage == 4
TriggerDisplayUpdate == 32
VComRegister == 44
SetBWBuffer == 36
SetRYBuffer == 38

LUT_BLACK ==
    <<72, 160, 16, 16, 19, 0, 0, 72,
      160, 128, 0, 3, 0, 0, 0, 0,
      0, 0, 0, 0, 0, 72, 165, 0,
      187, 0, 0, 0, 0, 0, 0, 0,
      0, 0, 0, 16, 4, 4, 4, 4, 16, 4, 4, 4, 4,
      4, 8, 8, 16, 16, 0, 0, 0, 0, 0, 0, 0, 0, 0, 0, 0,
      0, 0, 0, 0, 0, 0, 0, 0, 0>>

(***************************************************************************)
(* Canvas.                                                                 *)
(***************************************************************************)
PixelColors == {"Red", "Yellow", "Black", "White"}

\* Only White gives a set bit
Color_as_u8_OnlyWhite(c) == IF c = "White" THEN 1 ELSE 0

\* Color::as_u8
Color_as_u8(c) == IF c # "Black" THEN 1 ELSE 0

\* `height` columns of `width` pixels
CanvasNew_Transposed(width, height) ==
    [width |-> width, height |-> height,
     pixels |-> [col \in 1..height |-> [row \in 1..width |-> "White"]]]

\* Canvas::new: vec![vec![White; height]; width], pixels[col][row]
CanvasNew(width, height) ==
    [width |-> width, height |-> height,
     pixels |-> [col \in 1..width |-> [row \in 1..height |-> "White"]]]

\* One pass of the inner loop body of Canvas::pack
PackBit(st, b) ==
    LET cur == st.cur_byte + Color_as_u8(b) * (2 ^ st.bit_pos)
        pos == st.bit_pos + 1
    IN  IF pos = 8
        THEN [packed |-> Append(st.packed, cur), bit_pos |-> 0, cur_byte |-> 0]
        ELSE [packed |-> st.packed, bit_pos |-> pos, cur_byte |-> cur]

RECURSIVE PackInner(_, _, _, _)
\* `for b in row`, over the pixels lo..hi of the vector in their order: the
\* first half of the range, then the second half from the state the first
\* one left.  bit_pos is below 8 between two pixels: the test on it only
\* makes the state be evaluated before the second half is taken.
PackInner(row, lo, hi, st) ==
    IF lo > hi THEN st
    ELSE IF lo = hi THEN PackBit(st, row[lo])
    ELSE LET mid == (lo + hi) \div 2
             first == PackInner(row, lo, mid, st)
         IN  IF first.bit_pos = 8 THEN first
             ELSE PackInner(row, mid + 1, hi, first)

RECURSIVE PackOuter(_, _, _)
\* `for row in &self.pixels`
PackOuter(pixels, i, st) ==
    IF i > Len(pixels) \/ st.bit_pos = 8 THEN st
    ELSE PackOuter(pixels, i + 1, PackInner(pixels[i], 1, Len(pixels[i]), st))

\* Canvas::pack
pack(cv) ==
    LET st == PackOuter(cv.pixels, 1,
                        [packed |-> <<>>, bit_pos |-> 0, cur_byte |-> 0])
    IN  IF st.bit_pos # 0 THEN Append(st.packed, st.cur_byte) ELSE st.packed

(***************************************************************************)
(* SPI packets and spi_send.                                               *)
(***************************************************************************)
ChunkSize == 4096

\* SpiPacket: command is an Option, <<>> for None and <<c>> for Some(c)
Packet(command, data) == [command |-> command, data |-> data]

\* The data written as one piece whatever its length.
Chunks_Whole(data) == IF data = <<>> THEN <<>> ELSE <<data>>

\* data.chunks(4096)
Chunks(data) ==
    [i \in 1..((Len(data) + ChunkSize - 1) \div ChunkSize) |->
        SubSeq(data, (i - 1) * ChunkSize + 1, Min(i * ChunkSize, Len(data)))]

\* The data written even when the packet has none.
SpiWrites_AlwaysData(packet) ==
    (IF packet.command # <<>>
        THEN <<[dc |-> "low", bytes |-> packet.command]>>
        ELSE <<>>)
    \o (IF packet.data = <<>>
           THEN <<[dc |-> "high", bytes |-> <<>>]>>
           ELSE [i \in 1..Len(Chunks(packet.data)) |->
                    [dc |-> "high", bytes |-> Chunks(packet.data)[i]]])

\* The bus writes spi_send makes for a packet when none fails, each with the
\* level the data/command line has when it is made.
SpiWrites(packet) ==
    (IF packet.command # <<>>
        THEN <<[dc |-> "low", bytes |-> packet.command]>>
        ELSE <<>>)
    \o [i \in 1..Len(Chunks(packet.data)) |->
            [dc |-> "high", bytes |-> Chunks(packet.data)[i]]]

\* A failing write: every later write of the packet is still made.
WritesAttempted_NoAbort(writes, f) ==
    [i \in 1..Len(writes) |->
        [dc |-> writes[i].dc, bytes |-> writes[i].bytes, ok |-> (i # f)]]

\* The writes spi_send attempts when its f-th write fails (f = 0: none fails):
\* `self.spi.write(..)?` returns at the first failure.
WritesAttempted(writes, f) ==
    [i \in 1..(IF f = 0 THEN Len(writes) ELSE f) |->
        [dc |-> writes[i].dc, bytes |-> writes[i].bytes, ok |-> (i # f)]]

(***************************************************************************)
(* The bodies of reset() and update() as instruction lists.                *)
(***************************************************************************)
Ins(op, packet, ms) == [op |-> op, packet |-> packet, ms |-> ms]
NoPacket == Packet(<<>>, <<>>)
Send(command, data) == Ins("send", Packet(<<command>>, data), 0)
Sleep(ms) == Ins("sleep", NoPacket, ms)
Do(op) == Ins(op, NoPacket, 0)

\* Inky::wait
WaitBody == <<Do("set_interrupt"), Do("poll_interrupt"), Do("clear_interrupt")>>

\* SoftReset is sent before the reset line is released.
ResetBody_SendWhileLow ==
    <<Do("set_low"), Sleep(100), Send(SoftReset, <<>>), Do("set_high"),
      Sleep(100)>>
    \o WaitBody

\* Inky::reset
ResetBody ==
    <<Do("set_low"), Sleep(100), Do("set_high"), Sleep(100),
      Send(SoftReset, <<>>)>>
    \o WaitBody

\* `((self.canvas.width() / 8) - 1) as u8`: usize subtraction, which panics
\* on overflow when the build checks overflow and wraps otherwise.
SetRamXStartEndIns(cv, oc) ==
    IF (cv.width \div 8) - 1 < 0 /\ oc
        THEN Do("panic")
        ELSE Send(SetRamXStartEnd, <<0, as_u8((cv.width \div 8) - 1)>>)

\* Inky::update, lines 319-418: the register configuration
UpdateConfigure(cv, oc) ==
    <<Send(SetAnalogBlockControl, <<84>>),
      Send(SetDigitalBlockControl, <<59>>),
      Send(GateSetting, to_le_bytes(cv.height % 65536) \o <<0>>),
      Send(GateDrivingVoltage, <<23>>),
      Send(SourceDrivingVoltage, <<65, 172, 50>>),
      Send(DummyLinePeriod, <<7>>),
      Send(GateLineWidth, <<4>>),
      Send(DataEntryMode, <<3>>),
      Send(VComRegister, <<60>>),
      Send(GSTransition, <<49>>),
      Send(SetLUT, LUT_BLACK),
      SetRamXStartEndIns(cv, oc),
      Send(SetRamYStartEnd, <<0, 0>> \o to_le_bytes(cv.height % 65536))>>

\* Inky::update, lines 420-443: the buffer transfer; bw is the local bw_buf
UpdateLoad(bw) ==
    <<Do("pack"),
      Send(SetRamXPointerStart, <<0>>),
      Send(SetRamYPointerStart, <<0, 0>>),
      Send(SetBWBuffer, bw)>>

\* Deep sleep is entered before the refresh has finished.
UpdateRefresh_SleepEarly ==
    <<Send(DisplayUpdateSequence, <<199>>),
      Send(TriggerDisplayUpdate, <<>>),
      Sleep(50),
      Send(EnterDeepSleep, <<1>>)>>
    \o WaitBody

\* Inky::update, lines 466-491: the refresh
UpdateRefresh ==
    <<Send(DisplayUpdateSequence, <<199>>),
      Send(TriggerDisplayUpdate, <<>>),
      Sleep(50)>>
    \o WaitBody
    \o <<Send(EnterDeepSleep, <<1>>)>>

\* The buffer is transferred before the registers are configured.
UpdateBody_LoadFirst(cv, oc, bw) ==
    UpdateLoad(bw) \o UpdateConfigure(cv, oc) \o UpdateRefresh

\* Inky::update
UpdateBody(cv, oc, bw) ==
    UpdateConfigure(cv, oc) \o UpdateLoad(bw) \o UpdateRefresh

\* The instruction list of the call c
Body(c) ==
    IF c.op = "update" THEN UpdateBody(canvas, overflow_checks, c.bw_buf)
    ELSE IF c.op = "spi_send" THEN <<Ins("send", c.packet, 0)>>
    ELSE ResetBody

(***************************************************************************)
(* The controller as a state machine.  One host thread runs one call at a  *)
(* time; the panel drives the busy line on its own.                        *)
(***************************************************************************)
\* A call: the method, the position in its body, the packed buffer update()
\* holds, the caller it was made by and the packet handed to spi_send
Call(op, pc, by, packet) ==
    [op |-> op, pc |-> pc, bw_buf |-> <<>>, by |-> by, packet |-> packet]

Idle == Call("none", 0, 0, NoPacket)
Aborted == Call("aborted", 0, 0, NoPacket)

Active == call.op \in {"try_from", "reset", "update", "spi_send"}
Ended == Active /\ call.pc > Len(Body(call))
At(op) == Active /\ call.pc <= Len(Body(call)) /\ Body(call)[call.pc].op = op
Cur == Body(call)[call.pc]

\* An entry of the trace: what was done (k), by which call, the levels of
\* the two output lines when it was done, and what the panel had last
\* received before it.
Ev(c, k, bytes, ms, ok, dcl, rstl) ==
    [k |-> k, op |-> c.op, by |-> c.by, bytes |-> bytes, ms |-> ms,
     ok |-> ok, dc |-> dcl, rst |-> rstl, after |-> panel_last]

\* The ways a step with n fallible operations may fail: 0 is not at all,
\* i is at the i-th.
Faults(n) == 0..n

\* The display sizes and colours the identity record may carry.
PanelSizes == {<<8, 2>>, <<16, 1>>, <<3, 2>>, <<8, 258>>}
EepromRecords ==
    [width : {s[1] : s \in PanelSizes}, height : {s[2] : s \in PanelSizes},
     color : {"Black", "SevenColor"}, display_variant : {"What", "Phat"}]

NoCanvas == [width |-> 0, height |-> 0, pixels |-> <<>>]

InitCtl ==
    /\ eeprom \in {r \in EepromRecords :
                      /\ <<r.width, r.height>> \in PanelSizes
                      /\ r.display_variant = "Phat" =>
                            (r.width = 8 /\ r.height = 2 /\ r.color = "Black")}
    /\ inky = "none"
    /\ canvas = NoCanvas
    /\ reset = "unset"
    /\ dc = "unset"
    /\ busy = FALSE
    /\ armed = FALSE
    /\ pending = FALSE
    /\ call = Idle
    /\ result = "none"
    /\ trace = <<>>
    /\ panel_last = 0

\* A try_from that fails still yields the controller.
Finish_AlwaysController(res, evs, dcl) ==
    /\ trace' = trace \o evs
                \o <<Ev(call, "return", <<>>, 0, res = "ok", dcl, reset)>>
    /\ call' = Idle
    /\ result' = res
    /\ inky' = IF call.op = "try_from" THEN "ok" ELSE inky

\* The `?` after a fallible step of a call: go on, or return the error.
\* A finished try_from yields the controller only on success.
Finish(res, evs, dcl) ==
    /\ trace' = trace \o evs
                \o <<Ev(call, "return", <<>>, 0, res = "ok", dcl, reset)>>
    /\ call' = Idle
    /\ result' = res
    /\ inky' = IF call.op = "try_from"
                 THEN (IF res = "ok" THEN "ok" ELSE "failed")
                 ELSE inky

Continue(evs) ==
    /\ trace' = trace \o evs
    /\ call' = [call EXCEPT !.pc = @ + 1]
    /\ UNCHANGED <<result, inky>>

\* impl TryFrom<EEPROM> for Inky, up to the call of reset()
TryFrom ==
    /\ inky = "none" /\ call.op = "none" /\ result = "none"
    /\ \E f \in Faults(2) :
        LET c == Call("try_from", 1, 0, NoPacket)
        IN  /\ IF f = 1
               THEN \* Gpio::new()? fails
                    /\ UNCHANGED <<dc, reset, canvas>>
                    /\ inky' = "failed" /\ result' = "err" /\ call' = Idle
                    /\ trace' = <<Ev(c, "call", <<>>, 0, TRUE, dc, reset),
                                  Ev(c, "return", <<>>, 0, FALSE, dc, reset)>>
               ELSE /\ dc' = "low" /\ reset' = "high"
                    /\ IF eeprom.color = "SevenColor" \/ f = 2
                       THEN \* value.color().try_into()? or Spi::new(..)? fails
                            /\ UNCHANGED canvas
                            /\ inky' = "failed" /\ result' = "err"
                            /\ call' = Idle
                            /\ trace' =
                                <<Ev(c, "call", <<>>, 0, TRUE, dc, reset),
                                  Ev(c, "return", <<>>, 0, FALSE, "low", "high")>>
                       ELSE /\ canvas' = CanvasNew(eeprom.width, eeprom.height)
                            /\ call' = c
                            /\ trace' =
                                <<Ev(c, "call", <<>>, 0, TRUE, "low", "high")>>
                            /\ UNCHANGED <<inky, result>>
    /\ UNCHANGED <<eeprom, busy, armed, pending, panel_last>>

\* The logical callers that share the controller
Callers == {1, 2}

\* Every caller may enter at any time.
ExclusiveBorrow_Shared == TRUE

\* reset, update and spi_send take `&mut self`: a call can be made only
\* while no other call holds the controller.
ExclusiveBorrow == call.op = "none"

\* The packets handed to spi_send directly: none of them is a command that
\* starts a panel operation.
BigData == [i \in 1..(2 * ChunkSize + 1) |-> i % 251]
SendPackets ==
    { NoPacket,
      Packet(<<>>, <<1, 2, 3>>),
      Packet(<<SetLUT>>, <<>>),
      Packet(<<SetBWBuffer>>, BigData) }

\* A caller invokes reset(), update() or spi_send(packet) on the controller.
CallOp(op) ==
    /\ inky = "ok" /\ ExclusiveBorrow /\ call.op # "aborted"
    /\ \E by \in Callers, packet \in SendPackets :
        /\ (op # "spi_send") => packet = NoPacket
        /\ call' = Call(op, 1, by, packet)
    /\ trace' = <<Ev(call', "call", <<>>, 0, TRUE, dc, reset)>>
    /\ UNCHANGED <<eeprom, inky, canvas, reset, dc, busy, armed, pending,
                   result, panel_last>>

CallReset == CallOp("reset")
CallUpdate == CallOp("update")
CallSpiSend == CallOp("spi_send")

\* self.reset.set_low()
StepSetLow ==
    /\ At("set_low")
    /\ reset' = "low"
    /\ Continue(<<Ev(call, "set_low", <<>>, 0, TRUE, dc, "low")>>)
    /\ UNCHANGED <<eeprom, canvas, dc, busy, armed, pending, panel_last>>

\* self.reset.set_high()
StepSetHigh ==
    /\ At("set_high")
    /\ reset' = "high"
    /\ Continue(<<Ev(call, "set_high", <<>>, 0, TRUE, dc, "high")>>)
    /\ UNCHANGED <<eeprom, canvas, dc, busy, armed, pending, panel_last>>

\* sleep(Duration)
StepSleep ==
    /\ At("sleep")
    /\ Continue(<<Ev(call, "sleep", <<>>, Cur.ms, TRUE, dc, reset)>>)
    /\ UNCHANGED <<eeprom, canvas, reset, dc, busy, armed, pending, panel_last>>

\* The commands that move the panel between its Reset, Updating and Sleeping
\* states.
PanelCommands == {SoftReset, TriggerDisplayUpdate, EnterDeepSleep}

\* The command byte the panel receives from the writes ws, or 0.
Received(ws) ==
    IF ws # <<>> /\ ws[1].ok /\ ws[1].dc = "low" THEN ws[1].bytes[1] ELSE 0

\* self.spi_send(packet)? with its f-th bus write failing (0: none).  The
\* panel asserts busy when it receives a command that starts an operation.
DoSend(f) ==
    /\ At("send")
    /\ f \in Faults(Len(SpiWrites(Cur.packet)))
    /\ LET att == WritesAttempted(SpiWrites(Cur.packet), f)
           evs == [i \in 1..Len(att) |->
                      Ev(call, "write", att[i].bytes, 0, att[i].ok,
                         att[i].dc, reset)]
       IN  /\ dc' = IF att = <<>> THEN dc ELSE att[Len(att)].dc
           /\ busy' = (busy \/ Received(att) \in {SoftReset, TriggerDisplayUpdate})
           /\ panel_last' = IF Received(att) \in PanelCommands
                               THEN Received(att) ELSE panel_last
           /\ IF \A i \in 1..Len(att) : att[i].ok
              THEN Continue(evs) ELSE Finish("err", evs, dc')
    /\ UNCHANGED <<eeprom, canvas, reset, armed, pending>>

StepSend ==
    /\ At("send")
    /\ \E f \in Faults(Len(SpiWrites(Cur.packet))) : DoSend(f)

\* self.busy.set_interrupt(Trigger::FallingEdge)?
DoSetInterrupt(f) ==
    /\ At("set_interrupt")
    /\ IF f = 0
       THEN /\ armed' = TRUE /\ pending' = FALSE
            /\ Continue(<<Ev(call, "set_interrupt", <<>>, 0, TRUE, dc, reset)>>)
       ELSE /\ UNCHANGED <<armed, pending>>
            /\ Finish("err", <<Ev(call, "set_interrupt", <<>>, 0, FALSE, dc, reset)>>, dc)
    /\ UNCHANGED <<eeprom, canvas, reset, dc, busy, panel_last>>

StepSetInterrupt == \E f \in Faults(1) : DoSetInterrupt(f)

\* self.busy.poll_interrupt(false, None)?: blocks until an edge event is
\* cached for the configured interrupt
DoPollInterrupt(f) ==
    /\ At("poll_interrupt")
    /\ IF f = 0
       THEN /\ armed /\ pending
            /\ pending' = FALSE
            /\ Continue(<<Ev(call, "poll_interrupt", <<>>, 0, TRUE, dc, reset)>>)
       ELSE /\ UNCHANGED pending
            /\ Finish("err", <<Ev(call, "poll_interrupt", <<>>, 0, FALSE, dc, reset)>>, dc)
    /\ UNCHANGED <<eeprom, canvas, reset, dc, busy, armed, panel_last>>

StepPollInterrupt == \E f \in Faults(1) : DoPollInterrupt(f)

\* self.busy.clear_interrupt()?
DoClearInterrupt(f) ==
    /\ At("clear_interrupt")
    /\ IF f = 0
       THEN /\ armed' = FALSE /\ pending' = FALSE
            /\ Continue(<<Ev(call, "clear_interrupt", <<>>, 0, TRUE, dc, reset)>>)
       ELSE /\ UNCHANGED <<armed, pending>>
            /\ Finish("err", <<Ev(call, "clear_interrupt", <<>>, 0, FALSE, dc, reset)>>, dc)
    /\ UNCHANGED <<eeprom, canvas, reset, dc, busy, panel_last>>

StepClearInterrupt == \E f \in Faults(1) : DoClearInterrupt(f)

\* let bw_buf = self.canvas.pack()
StepPack ==
    /\ At("pack")
    /\ call' = [call EXCEPT !.pc = @ + 1, !.bw_buf = pack(canvas)]
    /\ UNCHANGED <<eeprom, inky, canvas, reset, dc, busy, armed, pending,
                   result, trace, panel_last>>

\* An arithmetic overflow panic unwinds out of the call.
StepPanic ==
    /\ At("panic")
    /\ call' = Aborted
    /\ result' = "panic"
    /\ trace' = Append(trace, Ev(call, "panic", <<>>, 0, FALSE, dc, reset))
    /\ UNCHANGED <<eeprom, inky, canvas, reset, dc, busy, armed, pending, panel_last>>

\* Ok(()) / Ok(inky)
StepReturnOk ==
    /\ Ended
    /\ Finish("ok", <<>>, dc)
    /\ UNCHANGED <<eeprom, canvas, reset, dc, busy, armed, pending, panel_last>>

\* The panel finishes its operation and releases the busy line; a configured
\* falling-edge interrupt caches the event.
PanelBusyFall ==
    /\ busy
    /\ busy' = FALSE
    /\ pending' = (pending \/ armed)
    /\ UNCHANGED <<eeprom, inky, canvas, reset, dc, armed, call, result,
                   trace, panel_last>>

\* Canvas::set_pixel between calls; an index outside the grid panics.  The
\* trace of the call before it is dropped.
SetPixel ==
    /\ inky = "ok" /\ call.op = "none"
    /\ \E col \in {0, canvas.width}, row \in {0, canvas.height},
          color \in {"Black", "White"} :
        IF col < Len(canvas.pixels) /\ row < Len(canvas.pixels[col + 1])
        THEN /\ canvas' = [canvas EXCEPT !.pixels[col + 1][row + 1] = color]
             /\ UNCHANGED <<call, result>>
        ELSE /\ call' = Aborted /\ result' = "panic"
             /\ UNCHANGED canvas
    /\ trace' = <<>>
    /\ UNCHANGED <<eeprom, inky, reset, dc, busy, armed, pending, panel_last>>

(***************************************************************************)
(* The identity record (eeprom.rs).  A call returns [tag |-> "ok", v |-> _] *)
(* for Ok(v), [tag |-> "err", why |-> _] for Err and [tag |-> "panic",      *)
(* why |-> _] when it panics.                                               *)
(***************************************************************************)
NoResult == [tag |-> "none"]
Ok(v) == [tag |-> "ok", v |-> v]
Err(why) == [tag |-> "err", why |-> why]
Panic(why) == [tag |-> "panic", why |-> why]

\* PascalString::with_capacity: `capacity as usize - 1` panics on overflow
\* when the build checks overflow; otherwise it wraps to usize::MAX, and
\* Vec::with_capacity of that panics with a capacity overflow.
with_capacity(capacity, oc) ==
    IF capacity - 1 < 0
    THEN Panic(IF oc THEN "attempt to subtract with overflow"
                     ELSE "capacity overflow")
    ELSE Ok([capacity |-> capacity, data |-> <<>>])

\* PascalString::set_capacity: `capacity as u8 + 1`
set_capacity(s, capacity, oc) ==
    IF (capacity % 256) + 1 > 255
    THEN (IF oc THEN Panic("attempt to add with overflow")
                ELSE Ok([s EXCEPT !.capacity = 0]))
    ELSE Ok([s EXCEPT !.capacity = (capacity % 256) + 1])

\* PascalString::set_data: clear, then take(self.capacity - 1)
set_data(s, data, oc) ==
    IF s.capacity - 1 < 0
    THEN (IF oc THEN Panic("attempt to subtract with overflow")
                ELSE Ok([s EXCEPT !.data = SubSeq(data, 1, Min(Len(data), 255))]))
    ELSE Ok([s EXCEPT !.data = SubSeq(data, 1, Min(Len(data), s.capacity - 1))])

\* impl TryFrom<&[u8]> for PascalString
PascalString_try_from(value, oc) ==
    IF ~(Len(value) < 254) THEN Err("Value is too large")
    ELSE LET s == with_capacity(Len(value), oc)
         IN  IF s.tag # "ok" THEN s
             ELSE IF s.v.capacity > 1
             THEN LET data == Tail(value)
                      s1 == set_capacity(s.v, Len(data), oc)
                  IN  IF s1.tag # "ok" THEN s1 ELSE set_data(s1.v, data, oc)
             ELSE s

\* An unknown byte decoded as the first color
Color_try_from_Default(value) ==
    CASE value = 2 -> Ok("Red")
      [] value = 3 -> Ok("Yellow")
      [] value = 5 -> Ok("SevenColor")
      [] OTHER -> Ok("Black")

\* impl TryFrom<u8> for Color
Color_try_from(value) ==
    CASE value = 1 -> Ok("Black")
      [] value = 2 -> Ok("Red")
      [] value = 3 -> Ok("Yellow")
      [] value = 5 -> Ok("SevenColor")
      [] OTHER -> Err("Invalid Color value")

\* impl TryFrom<u8> for PcbVariant
PcbVariant_try_from(value) ==
    IF value = 12 THEN Ok("V1") ELSE Err("Invalid PcbVariant value")

\* The unassigned code 9 decoded as a What
DisplayVariant_try_from_Nine(value) ==
    CASE value \in {1, 4, 5} -> Ok("Phat")
      [] value \in {10, 11, 12} -> Ok("PhatSsd1608")
      [] value \in {2, 3, 6, 7, 8, 9} -> Ok("What")
      [] value = 14 -> Ok("Uc8159_600x448")
      [] value \in {15, 16} -> Ok("Uc8159_640x400")
      [] value \in {17, 18, 19} -> Ok("WhatSsd1683")
      [] value = 20 -> Ok("Ac073Tc1A")
      [] OTHER -> Err("Invalid value for DisplayVariant")

\* impl TryFrom<u8> for DisplayVariant
DisplayVariant_try_from(value) ==
    CASE value \in {1, 4, 5} -> Ok("Phat")
      [] value \in {10, 11, 12} -> Ok("PhatSsd1608")
      [] value \in {2, 3, 6, 7, 8} -> Ok("What")
      [] value = 14 -> Ok("Uc8159_600x448")
      [] value \in {15, 16} -> Ok("Uc8159_640x400")
      [] value \in {17, 18, 19} -> Ok("WhatSsd1683")
      [] value = 20 -> Ok("Ac073Tc1A")
      [] OTHER -> Err("Invalid value for DisplayVariant")

NotSentinel(v) == v # 255

\* impl TryFrom<&[u8]> for EEPROM, lines 246-261: from value[7..] on.
\* Slices and indexes are 0-based in the source and 1-based here.
DecodeWriteTime(value, width, height, color, pcb_variant, display_variant, oc) ==
    IF Len(value) < 7 THEN Panic("range start index 7 out of range")
    ELSE LET eeprom_write_time_bytes ==
                 SelectSeq(SubSeq(value, 8, Len(value)), NotSentinel)
             eeprom_write_time ==
                 PascalString_try_from(eeprom_write_time_bytes, oc)
         IN  IF eeprom_write_time.tag # "ok" THEN eeprom_write_time
             ELSE Ok([width |-> width, height |-> height, color |-> color,
                      pcb_variant |-> pcb_variant,
                      display_variant |-> display_variant,
                      eeprom_write_time |-> eeprom_write_time.v])

\* impl TryFrom<&[u8]> for EEPROM, in the order of its statements: an index
\* or a slice bound outside the input panics, a `?` returns the error.
Decode(value, oc) ==
    IF Len(value) < 2 THEN Panic("range end index 2 out of range")
    ELSE IF Len(value) < 4 THEN Panic("range end index 4 out of range")
    ELSE IF Len(value) < 5 THEN Panic("index 4 out of bounds")
    ELSE IF Color_try_from(value[5]).tag # "ok" THEN Color_try_from(value[5])
    ELSE IF Len(value) < 6 THEN Panic("index 5 out of bounds")
    ELSE IF PcbVariant_try_from(value[6]).tag # "ok"
        THEN PcbVariant_try_from(value[6])
    ELSE IF Len(value) < 7 THEN Panic("index 6 out of bounds")
    ELSE IF DisplayVariant_try_from(value[7]).tag # "ok"
        THEN DisplayVariant_try_from(value[7])
    ELSE DecodeWriteTime(value,
                         from_le_bytes(value[1], value[2]),
                         from_le_bytes(value[3], value[4]),
                         Color_try_from(value[5]).v,
                         PcbVariant_try_from(value[6]).v,
                         DisplayVariant_try_from(value[7]).v, oc)

(***************************************************************************)
(* Identification images used as inputs.                                   *)
(***************************************************************************)
Image(w, h, c, p, d, tail) == w \o h \o <<c, p, d>> \o tail

Fill(n, v) == [i \in 1..n |-> v]

\* The write-time field of the sample buffer of the tests module:
\* 21, "2020-10-01 15:51:43.3"
SampleTail ==
    <<21, 50, 48, 50, 48, 45, 49, 48, 45, 48, 49, 32, 49, 53, 58, 53, 49, 58,
      52, 51, 46, 51>>

Tails ==
    { SampleTail,
      Fill(22, 255),
      <<21>> \o Fill(21, 255),
      Fill(21, 255) \o <<51>>,
      <<5, 65, 66, 67, 68, 69, 70>> \o Fill(15, 255),
      Fill(22, 0) }

SampleImage == Image(<<144, 1>>, <<44, 1>>, 1, 12, 3, SampleTail)

Bytes == 0..255

\* 29-byte images: the sample with one or two of its fields varied
Images ==
    {Image(<<144, 1>>, <<44, 1>>, c, 12, 3, t) : c \in Bytes, t \in Tails}
    \cup {Image(<<144, 1>>, <<44, 1>>, 1, p, 3, SampleTail) : p \in Bytes}
    \cup {Image(<<144, 1>>, <<44, 1>>, 1, 12, d, t) : d \in Bytes, t \in Tails}
    \cup {Image(w, h, 1, 12, 3, SampleTail) :
            w \in {<<0, 0>>, <<212, 0>>, <<255, 255>>},
            h \in {<<0, 0>>, <<104, 0>>, <<255, 255>>}}
    \cup {Fill(29, 255)}

\* Inputs shorter than 29 bytes: the first n bytes of some images
ShortInputs ==
    {SubSeq(Image(<<144, 1>>, <<44, 1>>, c, p, d, t), 1, n) :
        c \in {1, 0}, p \in {12, 0}, d \in {3, 0},
        t \in {SampleTail, Fill(22, 255)}, n \in 0..28}

DecodeInputs == Images \cup ShortInputs

(***************************************************************************)
(* The decoder as a state machine: an input is drawn and decoded.          *)
(***************************************************************************)
IdleDecode ==
    d_buf = <<>> /\ d_out = NoResult /\ d_enc = NoResult /\ d_back = NoResult

InitDecode ==
    /\ d_buf \in DecodeInputs
    /\ d_out = NoResult /\ d_enc = NoResult /\ d_back = NoResult

\* EEPROM::try_from(value)
DecodeStep ==
    /\ d_out = NoResult
    /\ d_out' = Decode(d_buf, overflow_checks)
    /\ UNCHANGED <<d_buf, d_enc, d_back>>

(***************************************************************************)
(* The encoder, impl From<EEPROM> for Vec<u8>.                             *)
(***************************************************************************)
\* `value.color as u8`: the discriminants of enum Color
EepromColor_as_u8(color) ==
    CASE color = "Black" -> 1
      [] color = "Red" -> 2
      [] color = "Yellow" -> 3
      [] color = "SevenColor" -> 5

\* `value.pcb_variant as u8`
PcbVariant_as_u8(pcb_variant) == 12

\* `value.display_variant as u8`: enum DisplayVariant declares no
\* discriminants, so its variants count from 0 in the order of declaration.
DisplayVariant_as_u8(display_variant) ==
    CASE display_variant = "Phat" -> 0
      [] display_variant = "PhatSsd1608" -> 1
      [] display_variant = "What" -> 2
      [] display_variant = "Uc8159_600x448" -> 3
      [] display_variant = "Uc8159_640x400" -> 4
      [] display_variant = "WhatSsd1683" -> 5
      [] display_variant = "Ac073Tc1A" -> 6

\* impl From<PascalString> for Vec<u8>
PascalString_into(s) == <<s.capacity>> \o s.data

\* impl From<EEPROM> for Vec<u8>
Encode(value) ==
    to_le_bytes(value.width) \o to_le_bytes(value.height)
    \o <<EepromColor_as_u8(value.color),
         PcbVariant_as_u8(value.pcb_variant),
         DisplayVariant_as_u8(value.display_variant)>>
    \o PascalString_into(value.eeprom_write_time)

\* Vec::<u8>::from(record), for a record the decoder returned
EncodeStep ==
    /\ d_out.tag = "ok" /\ d_enc = NoResult
    /\ d_enc' = Ok(Encode(d_out.v))
    /\ UNCHANGED <<d_buf, d_out, d_back>>

\* EEPROM::try_from(encoded.as_slice())
RedecodeStep ==
    /\ d_enc.tag = "ok" /\ d_back = NoResult
    /\ d_back' = Decode(d_enc.v, overflow_checks)
    /\ UNCHANGED <<d_buf, d_out, d_enc>>

(***************************************************************************)
(* One PascalString: constructed from a slice, then changed through its   *)
(* public operations.                                                      *)
(***************************************************************************)
IdlePascal == p_in = <<>> /\ p_str = NoResult /\ p_ops = 0

\* Slices a string is constructed from
PascalInputs ==
    { <<>>, <<1>>, <<3, 65, 66>>,
      <<5, 65, 66, 67, 68, 69, 70, 71, 72, 73, 74>>,
      Fill(253, 65), Fill(254, 65) }

\* Arguments of set_capacity
CapacityInputs == {0, 1, 4, 254, 255, 256}

\* Arguments of set_data
DataInputs == { <<>>, <<65, 66, 67>>, Fill(10, 66), Fill(300, 67) }

InitPascal == p_in \in PascalInputs /\ p_str = NoResult /\ p_ops = 0

\* PascalString::try_from(p_in)
P_TryFrom ==
    /\ p_str = NoResult
    /\ p_str' = PascalString_try_from(p_in, overflow_checks)
    /\ UNCHANGED <<p_in, p_ops>>

\* s.set_capacity(capacity)
P_SetCapacity ==
    /\ p_str.tag = "ok" /\ p_ops < MaxStringOps
    /\ \E capacity \in CapacityInputs :
          p_str' = set_capacity(p_str.v, capacity, overflow_checks)
    /\ p_ops' = p_ops + 1
    /\ UNCHANGED p_in

\* s.set_data(data)
P_SetData ==
    /\ p_str.tag = "ok" /\ p_ops < MaxStringOps
    /\ \E data \in DataInputs :
          p_str' = set_data(p_str.v, data, overflow_checks)
    /\ p_ops' = p_ops + 1
    /\ UNCHANGED p_in

(***************************************************************************)
(* One Canvas under get_pixel, set_pixel and pack.  Indexes are 0-based in *)
(* the source and 1-based here.                                            *)
(***************************************************************************)
IdleCanvas == c_canvas = NoCanvas /\ c_out = NoResult /\ c_paints = 0

\* self.pixels[col][row]: is the index inside the vectors
InGrid(cv, col, row) ==
    col < Len(cv.pixels) /\ row < Len(cv.pixels[col + 1])

\* Canvas::get_pixel
get_pixel(cv, col, row) ==
    IF InGrid(cv, col, row) THEN Ok(cv.pixels[col + 1][row + 1])
    ELSE Panic("index out of bounds")

\* The column index taken modulo the width
set_pixel_Wrapping(cv, col, row, color) ==
    IF cv.width > 0 /\ InGrid(cv, col % cv.width, row)
    THEN Ok([cv EXCEPT !.pixels[(col % cv.width) + 1][row + 1] = color])
    ELSE Panic("index out of bounds")

\* Canvas::set_pixel
set_pixel(cv, col, row, color) ==
    IF InGrid(cv, col, row)
    THEN Ok([cv EXCEPT !.pixels[col + 1][row + 1] = color])
    ELSE Panic("index out of bounds")

\* <<width, height>> of the canvases
CanvasSizes == {<<0, 2>>, <<2, 2>>, <<3, 2>>, <<2, 4>>, <<3, 3>>, <<8, 1>>}

\* A canvas on which every pixel has been set to the color c
Uniform(width, height, c) ==
    [CanvasNew(width, height) EXCEPT
        !.pixels = [col \in 1..width |-> [row \in 1..height |-> c]]]

InitCanvas ==
    /\ c_canvas \in {Uniform(s[1], s[2], c) : s \in CanvasSizes, c \in PixelColors}
    /\ c_out = NoResult
    /\ c_paints = 0

\* The record of an operation and its outcome
COut(op, col, row, color, res) ==
    [tag |-> res.tag, op |-> op, col |-> col, row |-> row, color |-> color,
     v |-> IF res.tag = "ok" /\ op # "set_pixel" THEN res.v ELSE <<>>]

CanvasLive == c_out = NoResult \/ c_out.tag = "ok"

\* canvas.get_pixel(col, row)
C_GetPixel ==
    /\ CanvasLive
    /\ \E col \in 0..c_canvas.width, row \in 0..c_canvas.height :
          c_out' = COut("get_pixel", col, row, "none",
                        get_pixel(c_canvas, col, row))
    /\ UNCHANGED <<c_canvas, c_paints>>

\* canvas.set_pixel(col, row, color)
C_SetPixel ==
    /\ CanvasLive /\ c_paints < MaxPaints
    /\ \E col \in 0..c_canvas.width, row \in 0..c_canvas.height,
          color \in PixelColors :
        LET res == set_pixel(c_canvas, col, row, color) IN
        /\ c_out' = COut("set_pixel", col, row, color, res)
        /\ IF res.tag = "ok"
           THEN c_canvas' = res.v /\ c_paints' = c_paints + 1
           ELSE UNCHANGED <<c_canvas, c_paints>>

\* canvas.pack()
C_Pack ==
    /\ CanvasLive
    /\ c_out' = COut("pack", 0, 0, "none", Ok(pack(c_canvas)))
    /\ UNCHANGED <<c_canvas, c_paints>>

(***************************************************************************)
(* EEPROM::try_new_tries.                                                  *)
(***************************************************************************)
ADDRESS == 80

\* What a read of the identification bus may put into the 29-byte buffer
ReadBufs ==
    { SampleImage,
      Fill(29, 0),
      Fill(29, 255),
      Image(<<144, 1>>, <<44, 1>>, 1, 12, 21, SampleTail),
      Image(<<144, 1>>, <<44, 1>>, 1, 12, 3, Fill(22, 255)) }

\* The byte counts a read may report
ReadCounts == {0, 28, 29}

IdleEeprom ==
    /\ e_max_tries = 0 /\ e_pc = "idle" /\ e_i = 0 /\ e_addr = 0
    /\ e_log = <<>> /\ e_result = NoResult

InitEeprom ==
    /\ e_max_tries \in 0..MaxTries
    /\ e_pc = "open" /\ e_i = 0 /\ e_addr = 0
    /\ e_log = <<>> /\ e_result = NoResult

\* An entry of the I2C log
EEv(k, addr, bytes, n, ok) ==
    [k |-> k, attempt |-> e_i, addr |-> addr, bytes |-> bytes, n |-> n,
     ok |-> ok]

\* A transport error is retried like a decode failure.
EDone_RetryTransport(res) ==
    IF res = Err("transport")
    THEN e_pc' = "loop" /\ UNCHANGED e_result
    ELSE e_pc' = "done" /\ e_result' = res

\* `return`, `?` on an error, bail!: the function ends with res
EDone(res) == e_pc' = "done" /\ e_result' = res

\* I2c::with_bus(INKY_BUS)?
E_Open ==
    /\ e_pc = "open"
    /\ \E ok \in BOOLEAN :
        IF ok THEN e_pc' = "loop" /\ UNCHANGED e_result
              ELSE EDone(Err("transport"))
    /\ UNCHANGED <<e_max_tries, e_i, e_addr, e_log>>

\* One more turn of `for _ in 0..max_tries`
LoopContinues_OneMore(i, max_tries) == i <= max_tries

LoopContinues(i, max_tries) == i < max_tries

\* The head of the loop, and the bail! after it
E_Loop ==
    /\ e_pc = "loop"
    /\ IF LoopContinues(e_i, e_max_tries)
       THEN /\ e_i' = e_i + 1 /\ e_pc' = "write"
            /\ UNCHANGED e_result
       ELSE /\ EDone(Err("Failed to initialize eeprom in tries"))
            /\ UNCHANGED e_i
    /\ UNCHANGED <<e_max_tries, e_addr, e_log>>

\* set_slave_address(ADDRESS)?; write(&[0x00; 2])?
E_Write ==
    /\ e_pc = "write"
    /\ \E f \in 0..2 :
        CASE f = 1 -> \* set_slave_address fails
                /\ EDone(Err("transport"))
                /\ UNCHANGED <<e_addr, e_log>>
          [] f = 2 -> \* write fails
                /\ EDone(Err("transport"))
                /\ e_addr' = ADDRESS
                /\ e_log' = Append(e_log, EEv("write", ADDRESS, <<0, 0>>, 0, FALSE))
          [] OTHER ->
                /\ e_pc' = "read"
                /\ e_addr' = ADDRESS
                /\ e_log' = Append(e_log, EEv("write", ADDRESS, <<0, 0>>, 2, TRUE))
                /\ UNCHANGED e_result
    /\ UNCHANGED <<e_max_tries, e_i>>

\* What the loop body does with a read of `read` bytes whose buffer decodes
\* to `decoded`: the result it ends the function with, or NoResult to go on
\* to the sleep and the next turn.
AfterRead(read, decoded) ==
    IF ~(read >= 29) THEN Err("Read length is too small")
    ELSE IF decoded.tag \in {"ok", "panic"} THEN decoded
    ELSE NoResult

\* set_slave_address(ADDRESS)?; read(buffer)?; ensure!(read >= 29);
\* decode; sleep
E_Read ==
    /\ e_pc = "read"
    /\ \E f \in 0..2, buffer \in ReadBufs, read \in ReadCounts :
        CASE f = 1 -> \* set_slave_address fails
                /\ EDone(Err("transport"))
                /\ UNCHANGED <<e_addr, e_log>>
          [] f = 2 -> \* read fails
                /\ EDone(Err("transport"))
                /\ e_addr' = ADDRESS
                /\ e_log' = Append(e_log, EEv("read", ADDRESS, <<>>, 0, FALSE))
          [] OTHER ->
                LET filled == IF read >= 29 THEN buffer
                              ELSE SubSeq(buffer, 1, read) \o Fill(29 - read, 0)
                    decoded == Decode(filled, overflow_checks)
                    res == AfterRead(read, decoded)
                    rd == EEv("read", ADDRESS, filled, read, TRUE)
                IN  /\ e_addr' = ADDRESS
                    /\ IF res = NoResult
                       THEN /\ e_pc' = "loop"
                            /\ e_log' = e_log \o <<rd, EEv("sleep", 0, <<>>, 100, TRUE)>>
                            /\ UNCHANGED e_result
                       ELSE /\ EDone(res)
                            /\ e_log' = Append(e_log, rd)
    /\ UNCHANGED <<e_max_tries, e_i>>

OnlyEeprom == UNCHANGED <<overflow_checks, ctlVars, dVars, pVars, cVars>>
OnlyDecode == UNCHANGED <<overflow_checks, ctlVars, eVars, pVars, cVars>>

IdleCtl ==
    /\ eeprom = [width |-> 0, height |-> 0, color |-> "Black",
                 display_variant |-> "What"]
    /\ inky = "none" /\ canvas = NoCanvas /\ reset = "unset" /\ dc = "unset"
    /\ busy = FALSE /\ armed = FALSE /\ pending = FALSE /\ call = Idle
    /\ result = "none" /\ trace = <<>> /\ panel_last = 0

InitE ==
    /\ overflow_checks \in BOOLEAN
    /\ IdleCtl /\ InitEeprom /\ IdleDecode /\ IdlePascal /\ IdleCanvas

NextE ==
    \/ E_Open /\ OnlyEeprom
    \/ E_Loop /\ OnlyEeprom
    \/ E_Write /\ OnlyEeprom
    \/ E_Read /\ OnlyEeprom

SpecEeprom == InitE /\ [][NextE]_vars

InitD ==
    /\ overflow_checks \in BOOLEAN
    /\ IdleCtl /\ IdleEeprom /\ InitDecode /\ IdlePascal /\ IdleCanvas

NextD ==
    \/ DecodeStep /\ OnlyDecode
    \/ EncodeStep /\ OnlyDecode
    \/ RedecodeStep /\ OnlyDecode

SpecDecode == InitD /\ [][NextD]_vars

OnlyPascal == UNCHANGED <<overflow_checks, ctlVars, eVars, dVars, cVars>>

InitP ==
    /\ overflow_checks \in BOOLEAN
    /\ IdleCtl /\ IdleEeprom /\ IdleDecode /\ InitPascal /\ IdleCanvas

NextP ==
    \/ P_TryFrom /\ OnlyPascal
    \/ P_SetCapacity /\ OnlyPascal
    \/ P_SetData /\ OnlyPascal

SpecPascal == InitP /\ [][NextP]_vars

OnlyCanvas == UNCHANGED <<overflow_checks, ctlVars, eVars, dVars, pVars>>

InitC ==
    /\ overflow_checks \in BOOLEAN
    /\ IdleCtl /\ IdleEeprom /\ IdleDecode /\ IdlePascal /\ InitCanvas

NextC ==
    \/ C_GetPixel /\ OnlyCanvas
    \/ C_SetPixel /\ OnlyCanvas
    \/ C_Pack /\ OnlyCanvas

SpecCanvas == InitC /\ [][NextC]_vars

OnlyCtl == UNCHANGED <<overflow_checks, eVars, dVars, pVars, cVars>>

Init ==
    /\ overflow_checks \in BOOLEAN
    /\ InitCtl
    /\ IdleEeprom
    /\ IdleDecode
    /\ IdlePascal
    /\ IdleCanvas

Next ==
    \/ TryFrom /\ OnlyCtl
    \/ CallReset /\ OnlyCtl
    \/ CallUpdate /\ OnlyCtl
    \/ SetPixel /\ OnlyCtl
    \/ StepSetLow /\ OnlyCtl
    \/ StepSetHigh /\ OnlyCtl
    \/ StepSleep /\ OnlyCtl
    \/ StepSend /\ OnlyCtl
    \/ StepSetInterrupt /\ OnlyCtl
    \/ StepPollInterrupt /\ OnlyCtl
    \/ StepClearInterrupt /\ OnlyCtl
    \/ StepPack /\ OnlyCtl
    \/ StepPanic /\ OnlyCtl
    \/ StepReturnOk /\ OnlyCtl
    \/ PanelBusyFall /\ OnlyCtl

Spec == Init /\ [][Next]_vars

\* The public operations of the controller of one 8 x 2 panel, spi_send
\* with a packet of the caller's included.  Its canvas stays as Canvas::new
\* made it, set_pixel being private, and no width below 8 is involved.
InitSend ==
    /\ Init
    /\ eeprom = [width |-> 8, height |-> 2, color |-> "Black",
                 display_variant |-> "What"]

NextSend ==
    \/ TryFrom /\ OnlyCtl
    \/ CallReset /\ OnlyCtl
    \/ CallUpdate /\ OnlyCtl
    \/ CallSpiSend /\ OnlyCtl
    \/ StepSetLow /\ OnlyCtl
    \/ StepSetHigh /\ OnlyCtl
    \/ StepSleep /\ OnlyCtl
    \/ StepSend /\ OnlyCtl
    \/ StepSetInterrupt /\ OnlyCtl
    \/ StepPollInterrupt /\ OnlyCtl
    \/ StepClearInterrupt /\ OnlyCtl
    \/ StepPack /\ OnlyCtl
    \/ StepReturnOk /\ OnlyCtl
    \/ PanelBusyFall /\ OnlyCtl

SpecSend == InitSend /\ [][NextSend]_vars

\* The host thread keeps running the call it is in: each step is taken
\* when it can be taken without an injected failure.  The panel finishes
\* every operation it has started.
HostRuns ==
    \/ StepSetLow
    \/ StepSetHigh
    \/ StepSleep
    \/ DoSend(0)
    \/ DoSetInterrupt(0)
    \/ DoPollInterrupt(0)
    \/ DoClearInterrupt(0)
    \/ StepPack
    \/ StepPanic
    \/ StepReturnOk

FairSpec ==
    /\ Init
    /\ [][Next]_vars
    /\ WF_vars(HostRuns /\ OnlyCtl)
    /\ WF_vars(PanelBusyFall /\ OnlyCtl)

(***************************************************************************)
(* Reading the trace.                                                      *)
(***************************************************************************)
Last(s) == s[Len(s)]

IsPrefix(s, t) == Len(s) <= Len(t) /\ SubSeq(t, 1, Len(s)) = s

IsWrite(e) == e.k = "write"
IsCommand(e, c) == e.k = "write" /\ e.dc = "low" /\ e.bytes = <<c>>

\* The bus writes of a trace
BusWrites(tr) == SelectSeq(tr, IsWrite)

RECURSIVE PacketsOf(_)
\* The writes of a trace as packets: each byte written with the line low is
\* a command, and the bytes written with the line high after it are its data.
PacketsOf(ws) ==
    IF ws = <<>> THEN <<>>
    ELSE LET w == Last(ws)
             before == PacketsOf(SubSeq(ws, 1, Len(ws) - 1))
         IN  IF w.dc = "low"
             THEN Append(before, [cmd |-> w.bytes[1], data |-> <<>>])
             ELSE IF before = <<>>
                  THEN <<[cmd |-> -1, data |-> w.bytes]>>
                  ELSE [before EXCEPT ![Len(before)].data = @ \o w.bytes]

CommandCodes(ps) == [i \in 1..Len(ps) |-> ps[i].cmd]

TraceOf(op) == trace # <<>> /\ trace[1].op = op
Returned(ok) == trace # <<>> /\ Last(trace).k = "return" /\ Last(trace).ok = ok

(***************************************************************************)
(* C1.  A call of update() in which every bus write succeeds and the busy  *)
(* wait returns transmits exactly the command codes 0x74, 0x7E, 0x01,      *)
(* 0x03, 0x04, 0x3A, 0x3B, 0x11, 0x2C, 0x3C, 0x32, 0x44, 0x45, 0x4E, 0x4F, *)
(* 0x24, 0x22, 0x20, 0x10 in this order, each followed by its own data     *)
(* before the next command: GateSetting carries [height low, height high,  *)
(* 0], SetRamYStartEnd [0, 0, height low, height high], SetLUT the 70-byte *)
(* Black table and SetBWBuffer the packed framebuffer.  While the call     *)
(* runs, what it has transmitted is a prefix of that sequence.             *)
(***************************************************************************)
UpdateCommandOrder ==
    <<116, 126, 1, 3, 4, 58, 59, 17, 44, 60, 50, 68, 69, 78, 79, 36, 34, 32, 16>>

C1_UpdateSequence ==
    TraceOf("update") =>
        LET ps == PacketsOf(BusWrites(trace))
        IN  /\ IsPrefix(CommandCodes(ps), UpdateCommandOrder)
            /\ Returned(TRUE) =>
                /\ CommandCodes(ps) = UpdateCommandOrder
                /\ \A i \in 1..Len(trace) : IsWrite(trace[i]) => trace[i].ok
                /\ ps[3].data = <<canvas.height % 256, canvas.height \div 256, 0>>
                /\ ps[13].data = <<0, 0, canvas.height % 256, canvas.height \div 256>>
                /\ ps[11].data = LUT_BLACK /\ Len(ps[11].data) = 70
                /\ ps[16].data = pack(canvas)

C1_Witness ==
    /\ TraceOf("update") /\ Returned(TRUE)
    /\ canvas.height > 255
    /\ canvas.pixels[1][1] = "Black"

(***************************************************************************)
(* C2.  If a bus write of update() fails (a command byte or a data chunk), *)
(* update() returns an error and makes no bus write after the failing one; *)
(* TriggerDisplayUpdate is written only if every earlier write of the call *)
(* succeeded.                                                              *)
(***************************************************************************)
C2_WriteFailureAborts ==
    TraceOf("update") =>
        \A i \in 1..Len(trace) :
            /\ (IsWrite(trace[i]) /\ ~trace[i].ok) =>
                /\ Len(trace) = i + 1
                /\ trace[i + 1].k = "return" /\ ~trace[i + 1].ok
                /\ ~Active
            /\ IsCommand(trace[i], TriggerDisplayUpdate) =>
                \A j \in 1..(i - 1) : IsWrite(trace[j]) => trace[j].ok

C2_Witness ==
    /\ TraceOf("update") /\ Returned(FALSE) /\ Len(trace) > 20
    /\ LET w == trace[Len(trace) - 1]
       IN  IsWrite(w) /\ ~w.ok /\ w.dc = "high"

(***************************************************************************)
(* C3.  reset() and update() block until the busy signal clears: once the  *)
(* host is in wait() and the panel deasserts busy, wait() returns, also    *)
(* when busy falls before the falling-edge interrupt is configured.        *)
(***************************************************************************)
InWait ==
    At("set_interrupt") \/ At("poll_interrupt") \/ At("clear_interrupt")

C3_WaitReturns == InWait ~> ~InWait

(***************************************************************************)
(* C4.  In update(), EnterDeepSleep is written only after                  *)
(* TriggerDisplayUpdate has been written and a busy wait that started      *)
(* after the trigger has returned successfully.                            *)
(***************************************************************************)
C4_SleepAfterWait ==
    TraceOf("update") =>
        \A i \in 1..Len(trace) :
            IsCommand(trace[i], EnterDeepSleep) =>
                \E t \in 1..(i - 1) :
                    /\ IsCommand(trace[t], TriggerDisplayUpdate) /\ trace[t].ok
                    /\ \E a \in (t + 1)..(i - 1) :
                        /\ trace[a].k = "set_interrupt" /\ trace[a].ok
                        /\ \E p \in (a + 1)..(i - 1) :
                            /\ trace[p].k = "poll_interrupt" /\ trace[p].ok
                            /\ \E c \in (p + 1)..(i - 1) :
                                trace[c].k = "clear_interrupt" /\ trace[c].ok

C4_Witness ==
    /\ TraceOf("update")
    /\ \E i \in 1..Len(trace) :
        IsCommand(trace[i], EnterDeepSleep) /\ trace[i].ok

(***************************************************************************)
(* C5.  reset() performs, in this order: reset line low, delay, reset line *)
(* high, delay, SoftReset written as a command without data, busy wait.    *)
(* SoftReset is never written while the reset line is low, and the reset   *)
(* line is high whenever reset() returns, with or without an error.        *)
(***************************************************************************)
ResetOrder ==
    <<"set_low", "sleep", "set_high", "sleep", "write",
      "set_interrupt", "poll_interrupt", "clear_interrupt">>

IsStep(e) == e.k \notin {"call", "return"}

C5_ResetOrder ==
    TraceOf("reset") =>
        LET steps == SelectSeq(trace, IsStep)
        IN  /\ IsPrefix([i \in 1..Len(steps) |-> steps[i].k], ResetOrder)
            /\ \A i \in 1..Len(steps) :
                IsWrite(steps[i]) =>
                    /\ steps[i].bytes = <<SoftReset>> /\ steps[i].dc = "low"
                    /\ steps[i].rst = "high"
            /\ Returned(TRUE) => Len(steps) = Len(ResetOrder)
            /\ (Returned(TRUE) \/ Returned(FALSE)) =>
                /\ Last(trace).rst = "high" /\ reset = "high"
                /\ Len(steps) >= 4

C5_Witness ==
    /\ TraceOf("reset") /\ Returned(TRUE)
    /\ \E i \in 1..Len(trace) : IsCommand(trace[i], SoftReset)

(***************************************************************************)
(* C6.  Every TriggerDisplayUpdate sent to the panel is preceded by a      *)
(* SoftReset with no other TriggerDisplayUpdate or EnterDeepSleep between  *)
(* them: a second update() without a reset() in between does not drive     *)
(* the panel.                                                              *)
(***************************************************************************)
C6_TriggerOnlyAfterReset ==
    \A i \in 1..Len(trace) :
        (IsCommand(trace[i], TriggerDisplayUpdate) /\ trace[i].ok) =>
            trace[i].after = SoftReset

(***************************************************************************)
(* Helpers over the I2C log of try_new_tries.                              *)
(***************************************************************************)
Exhausted == Err("Failed to initialize eeprom in tries")

IsRead(e) == e.k = "read" /\ e.ok

\* The read delivered all 29 bytes and the decoder returned an error
DecodeFailed(e) ==
    IsRead(e) /\ e.n >= 29 /\ Decode(e.bytes, overflow_checks).tag = "err"

Sleeps == {j \in 1..Len(e_log) : e_log[j].k = "sleep"}

BusAccesses == {j \in 1..Len(e_log) : e_log[j].k \in {"write", "read"}}

C8_ShortReadRetried ==
    \A j \in 1..Len(e_log) :
        (IsRead(e_log[j]) /\ e_log[j].n < 29 /\ e_log[j].attempt < e_max_tries)
            => /\ j < Len(e_log)
               /\ e_log[j + 1].k = "sleep"
               /\ ~(e_pc = "done" /\ e_i = e_log[j].attempt)

(***************************************************************************)
(* C9.  For every input of 0 to 28 bytes the decoder returns an error that *)
(* reports the size: it returns no record and it does not panic.           *)
(***************************************************************************)
C9_ShortInputSizeError ==
    (Len(d_buf) < 29 /\ d_out # NoResult) =>
        /\ d_out.tag = "err"
        /\ d_out.why \notin {"Invalid Color value", "Invalid PcbVariant value",
                             "Invalid value for DisplayVariant",
                             "Value is too large"}

(***************************************************************************)
(* C10.  For every 29-byte input the decoder returns a record or an error  *)
(* and does not panic, also when bytes 7..28 are all 255 and when exactly  *)
(* one of them is not 255.                                                 *)
(***************************************************************************)
C10_DecodeNeverAborts ==
    (Len(d_buf) = 29 /\ d_out # NoResult) => d_out.tag \in {"ok", "err"}


(***************************************************************************)
(* C11.  A 29-byte input whose color byte (offset 4) is not one of 1, 2,   *)
(* 3, 5, or whose pcb byte (offset 5) is not 12, is rejected with an       *)
(* error: the decoder returns no record for it.                            *)
(***************************************************************************)
C11_InvalidEnumRejected ==
    (/\ Len(d_buf) = 29 /\ d_out # NoResult
     /\ (d_buf[5] \notin {1, 2, 3, 5} \/ d_buf[6] # 12))
        => d_out.tag = "err"

\* An unknown color byte before a valid pcb byte, decoded
C11_Witness ==
    /\ Len(d_buf) = 29 /\ d_buf[5] = 4 /\ d_buf[6] = 12
    /\ d_out.tag = "err"

(***************************************************************************)
(* C12.  A record decoded from a 29-byte input, encoded and decoded again, *)
(* gives the same record: width, height, color, pcb variant, display       *)
(* variant and write-time payload.                                         *)
(***************************************************************************)
C12_RoundTrip ==
    (Len(d_buf) = 29 /\ d_out.tag = "ok" /\ d_back # NoResult) =>
        /\ d_back.tag = "ok"
        /\ d_back.v.width = d_out.v.width
        /\ d_back.v.height = d_out.v.height
        /\ d_back.v.color = d_out.v.color
        /\ d_back.v.pcb_variant = d_out.v.pcb_variant
        /\ d_back.v.display_variant = d_out.v.display_variant
        /\ d_back.v.eeprom_write_time.data = d_out.v.eeprom_write_time.data

(***************************************************************************)
(* C13.  Of a decoded record, width and height are the little-endian words *)
(* at offsets 0 and 2, color, pcb variant and display variant are the tags *)
(* of the bytes at offsets 4, 5 and 6, and the write-time payload comes    *)
(* from the bytes at offset 7 on.  The sample buffer gives 400 x 300,      *)
(* Black, V1, What.                                                        *)
(***************************************************************************)
C13_Layout ==
    d_out.tag = "ok" =>
        /\ d_out.v.width = d_buf[1] + 256 * d_buf[2]
        /\ d_out.v.height = d_buf[3] + 256 * d_buf[4]
        /\ d_out.v.color =
              (CASE d_buf[5] = 1 -> "Black" [] d_buf[5] = 2 -> "Red"
                 [] d_buf[5] = 3 -> "Yellow" [] d_buf[5] = 5 -> "SevenColor")
        /\ d_buf[6] = 12 /\ d_out.v.pcb_variant = "V1"
        /\ d_out.v.display_variant =
              (CASE d_buf[7] \in {1, 4, 5} -> "Phat"
                 [] d_buf[7] \in {10, 11, 12} -> "PhatSsd1608"
                 [] d_buf[7] \in {2, 3, 6, 7, 8} -> "What"
                 [] d_buf[7] = 14 -> "Uc8159_600x448"
                 [] d_buf[7] \in {15, 16} -> "Uc8159_640x400"
                 [] d_buf[7] \in {17, 18, 19} -> "WhatSsd1683"
                 [] d_buf[7] = 20 -> "Ac073Tc1A")
        /\ \E from \in 8..(Len(d_buf) + 1) :
              IsPrefix(d_out.v.eeprom_write_time.data,
                       SelectSeq(SubSeq(d_buf, from, Len(d_buf)), NotSentinel))
        /\ d_buf = SampleImage =>
              /\ d_out.v.width = 400 /\ d_out.v.height = 300
              /\ d_out.v.color = "Black" /\ d_out.v.pcb_variant = "V1"
              /\ d_out.v.display_variant = "What"

\* The sample buffer, decoded
C13_Witness == d_buf = SampleImage /\ d_out.tag = "ok"

(***************************************************************************)
(* C14.  The write-time field is the bytes from offset 7 on with every 255 *)
(* removed: the first of them is the capacity of the string, and the ones  *)
(* after it, cut to capacity - 1 bytes, are its payload.                   *)
(***************************************************************************)
C14_WriteTimeField ==
    (Len(d_buf) = 29 /\ d_out.tag = "ok") =>
        LET field == SelectSeq(SubSeq(d_buf, 8, Len(d_buf)), NotSentinel)
            s == d_out.v.eeprom_write_time
        IN  /\ field # <<>>
            /\ s.capacity = field[1]
            /\ s.data = SubSeq(Tail(field), 1,
                               Min(Len(field) - 1, field[1] - 1))

(***************************************************************************)
(* C15.  A PascalString, once constructed and after any set_capacity and   *)
(* set_data calls, has capacity >= 1 and at most capacity - 1 bytes of     *)
(* data, and none of these operations panics.                              *)
(***************************************************************************)
C15_StringInvariant ==
    /\ p_str.tag # "panic"
    /\ p_str.tag = "ok" =>
        /\ p_str.v.capacity >= 1
        /\ Len(p_str.v.data) <= p_str.v.capacity - 1

(***************************************************************************)
(* C16.  A string constructed from a slice whose first byte declares the   *)
(* capacity c >= 1 and whose other n bytes are the payload holds the first *)
(* min(n, c - 1) payload bytes, in order; the construction does not fail,  *)
(* however long the slice.                                                 *)
(***************************************************************************)
C16_ConstructTruncates ==
    (p_str # NoResult /\ p_ops = 0 /\ p_in # <<>> /\ p_in[1] >= 1) =>
        /\ p_str.tag = "ok"
        /\ p_str.v.data =
              SubSeq(Tail(p_in), 1, Min(Len(p_in) - 1, p_in[1] - 1))

(***************************************************************************)
(* Helpers over a packed buffer.                                           *)
(***************************************************************************)
\* Bit k of the buffer: byte k div 8, bit k mod 8 counted from the LSB
BitAt(bytes, k) == (bytes[(k \div 8) + 1] \div (2 ^ (k % 8))) % 2

\* The pixel at (col, row), as get_pixel addresses it
PixelAt(cv, col, row) == cv.pixels[col + 1][row + 1]

Packed == c_out # NoResult /\ c_out.op = "pack" /\ c_out.tag = "ok"

(***************************************************************************)
(* C17.  pack() emits the grid row by row: bit k of its output is the      *)
(* pixel at row k div width, column k mod width.                           *)
(***************************************************************************)
C17_PackRowMajor ==
    Packed =>
        \A k \in 0..(c_canvas.width * c_canvas.height - 1) :
            BitAt(c_out.v, k) =
                IF PixelAt(c_canvas, k % c_canvas.width,
                           k \div c_canvas.width) = "Black"
                THEN 0 ELSE 1

(***************************************************************************)
(* C18.  pack() returns ceil(w * h / 8) bytes; every pixel gives one bit,  *)
(* 0 for Black and 1 for White, Red and Yellow; the bits of the last byte  *)
(* past the last pixel are 0.  8 Black pixels pack to [0x00] and 8 White   *)
(* ones to [0xFF].                                                         *)
(***************************************************************************)
C18_PackBits ==
    Packed =>
        LET n == c_canvas.width * c_canvas.height
            cells == (0..(c_canvas.width - 1)) \X (0..(c_canvas.height - 1))
        IN  /\ Len(c_out.v) = (n + 7) \div 8
            /\ \A i \in 1..Len(c_out.v) : c_out.v[i] \in 0..255
            /\ Cardinality({k \in 0..(n - 1) : BitAt(c_out.v, k) = 1})
                  = Cardinality({p \in cells :
                                    PixelAt(c_canvas, p[1], p[2]) # "Black"})
            /\ \A k \in n..(8 * Len(c_out.v) - 1) : BitAt(c_out.v, k) = 0
            /\ (n = 8 /\ \A p \in cells : PixelAt(c_canvas, p[1], p[2]) = "Black")
                  => c_out.v = <<0>>
            /\ (n = 8 /\ \A p \in cells : PixelAt(c_canvas, p[1], p[2]) = "White")
                  => c_out.v = <<255>>

\* A 3 x 3 canvas holding Black, Red and White pixels, packed
C18_Witness ==
    /\ Packed /\ c_canvas.width = 3 /\ c_canvas.height = 3
    /\ PixelAt(c_canvas, 0, 0) = "Red" /\ PixelAt(c_canvas, 1, 0) = "Black"
    /\ PixelAt(c_canvas, 2, 2) = "Red"

(***************************************************************************)
(* C19.  The canvas Inky::try_from makes with Canvas::new(w, h) is all     *)
(* White, and through every set_pixel, pack and update after it the grid   *)
(* has w columns of h pixels and width() and height() are w and h.         *)
(***************************************************************************)
CanvasShape ==
    canvas # NoCanvas =>
        /\ canvas.width = eeprom.width /\ canvas.height = eeprom.height
        /\ Len(canvas.pixels) = canvas.width
        /\ \A col \in 1..Len(canvas.pixels) :
              Len(canvas.pixels[col]) = canvas.height

CanvasStartsWhite ==
    (canvas = NoCanvas /\ canvas' # NoCanvas) =>
        \A col \in 1..Len(canvas'.pixels) :
            \A row \in 1..Len(canvas'.pixels[col]) :
                canvas'.pixels[col][row] = "White"

C19_CanvasShape == []CanvasShape /\ [][CanvasStartsWhite]_vars

\* update() at work on a canvas a pixel of which was set to Black
C19_Witness ==
    /\ inky = "ok" /\ canvas.width = 8 /\ canvas.height = 2
    /\ canvas.pixels[1][1] = "Black"
    /\ call.op = "update" /\ call.bw_buf # <<>>

(***************************************************************************)
(* C20.  get_pixel and set_pixel with col >= width or row >= height fail   *)
(* and leave the grid as it was; with a coordinate inside the grid they    *)
(* succeed, get_pixel returns the addressed pixel and set_pixel changes    *)
(* the addressed pixel and no other.                                       *)
(***************************************************************************)
IsAccess == c_out # NoResult /\ c_out.op \in {"get_pixel", "set_pixel"}

AccessChecked ==
    IsAccess =>
        /\ (c_out.col >= c_canvas.width \/ c_out.row >= c_canvas.height)
              <=> c_out.tag = "panic"
        /\ (c_out.tag = "ok" /\ c_out.op = "get_pixel") =>
              c_out.v = PixelAt(c_canvas, c_out.col, c_out.row)
        /\ (c_out.tag = "ok" /\ c_out.op = "set_pixel") =>
              PixelAt(c_canvas, c_out.col, c_out.row) = c_out.color

AccessStep ==
    /\ (c_out'.tag = "panic" \/ c_out'.op # "set_pixel") =>
          c_canvas' = c_canvas
    /\ (c_out'.tag = "ok" /\ c_out'.op = "set_pixel") =>
          /\ c_canvas'.width = c_canvas.width
          /\ c_canvas'.height = c_canvas.height
          /\ \A col \in 0..(c_canvas.width - 1), row \in 0..(c_canvas.height - 1) :
                (col # c_out'.col \/ row # c_out'.row) =>
                    PixelAt(c_canvas', col, row) = PixelAt(c_canvas, col, row)

C20_PixelAccess == []AccessChecked /\ [][AccessStep]_vars

\* A set_pixel one column past the grid, failed
C20_Witness ==
    /\ IsAccess /\ c_out.op = "set_pixel" /\ c_out.tag = "panic"
    /\ c_canvas.width = 3 /\ c_out.col = 3 /\ c_out.row = 0

(***************************************************************************)
(* C26.  A failure of the I2C bus in try_new_tries (selecting the address, *)
(* the write or the read) ends the function with that error at once: no    *)
(* bus access, no sleep and no further attempt follows it.  Only a read of *)
(* 29 bytes that the decoder rejects is followed by another attempt.       *)
(***************************************************************************)
C26_TransportFatal ==
    /\ \A j \in 1..Len(e_log) :
        /\ ~e_log[j].ok =>
              /\ j = Len(e_log)
              /\ e_pc = "done"
              /\ e_result = Err("transport")
              /\ e_i = e_log[j].attempt
        /\ (j > 1 /\ e_log[j].attempt # e_log[j - 1].attempt) =>
              /\ e_log[j - 1].k = "sleep"
              /\ j > 2 /\ DecodeFailed(e_log[j - 2])
    /\ e_result = Err("transport") =>
        /\ e_pc = "done"
        /\ e_log # <<>> =>
              /\ Last(e_log).attempt \in {e_i - 1, e_i}
              /\ Last(e_log).attempt = e_i - 1 => Last(e_log).k = "sleep"

\* The write of the second of three attempts fails
C26_Witness ==
    /\ e_max_tries = 3 /\ e_i = 2 /\ e_pc = "done"
    /\ e_result = Err("transport")
    /\ e_log # <<>> /\ Last(e_log).k = "write" /\ ~Last(e_log).ok

(***************************************************************************)
(* C28.  The display byte (offset 6) decodes as: 1, 4, 5 Phat; 10, 11, 12  *)
(* PhatSsd1608; 2, 3, 6, 7, 8 What; 14 Uc8159_600x448; 15, 16              *)
(* Uc8159_640x400; 17, 18, 19 WhatSsd1683; 20 Ac073Tc1A; any other byte is *)
(* an error, and the decoder then returns no record.                       *)
(***************************************************************************)
VariantTable ==
    [b \in {1, 4, 5} |-> "Phat"] @@ [b \in {10, 11, 12} |-> "PhatSsd1608"]
    @@ [b \in {2, 3, 6, 7, 8} |-> "What"] @@ (14 :> "Uc8159_600x448")
    @@ [b \in {15, 16} |-> "Uc8159_640x400"]
    @@ [b \in {17, 18, 19} |-> "WhatSsd1683"] @@ (20 :> "Ac073Tc1A")

C28_DisplayVariantTable ==
    (/\ Len(d_buf) = 29 /\ d_out # NoResult
     /\ d_buf[5] \in {1, 2, 3, 5} /\ d_buf[6] = 12) =>
        /\ d_buf[7] \notin DOMAIN VariantTable =>
              d_out = Err("Invalid value for DisplayVariant")
        /\ d_buf[7] \in DOMAIN VariantTable =>
              /\ d_out # Err("Invalid value for DisplayVariant")
              /\ d_out.tag = "ok" =>
                    d_out.v.display_variant = VariantTable[d_buf[7]]

\* The unassigned code 9 rejected, and the code 20 decoded
C28_Witness ==
    /\ Len(d_buf) = 29 /\ d_buf[5] = 1 /\ d_buf[6] = 12
    /\ \/ d_buf[7] = 9 /\ d_out.tag = "err"
       \/ d_buf[7] = 20 /\ d_out.tag = "ok"

(***************************************************************************)
(* C21.  spi_send of a packet with no command and no data makes no bus     *)
(* write and leaves the data/command line and what the panel has received  *)
(* as they were, and it returns Ok.                                        *)
(***************************************************************************)
EmptySend == call.op = "spi_send" /\ call.packet = NoPacket

EmptySendStep ==
    EmptySend =>
        /\ UNCHANGED <<dc, reset, canvas, panel_last, armed>>
        /\ BusWrites(trace') = <<>>
        /\ call' # call =>
              \/ call' = [call EXCEPT !.pc = @ + 1]
              \/ /\ call' = Idle /\ result' = "ok"
                 /\ Last(trace').k = "return" /\ Last(trace').ok
                 /\ Last(trace').dc = trace[1].dc

C21_EmptyPacketNoOp ==
    /\ [](EmptySend => BusWrites(trace) = <<>> /\ dc = trace[1].dc)
    /\ [][EmptySendStep]_vars

\* spi_send has handled the empty packet and is about to return
C21_Witness == EmptySend /\ Ended /\ Len(trace) = 1

(***************************************************************************)
(* C22.  In every spi_send the command byte, if any, is written with the   *)
(* data/command line low and before the data of the packet; every data     *)
(* chunk is written with the line high, holds at most 4096 bytes, and the  *)
(* chunks in write order make up the data of the packet (all of it when    *)
(* no write fails).  So in reset() and update() a write with the line low  *)
(* is a single command byte.                                               *)
(***************************************************************************)
RECURSIVE Concat(_)
Concat(ss) == IF ss = <<>> THEN <<>> ELSE ss[1] \o Concat(Tail(ss))

\* The events a step adds to the trace
Added == SubSeq(trace', Len(trace) + 1, Len(trace'))

SendFraming ==
    (At("send") /\ call' # call) =>
        LET p == Cur.packet
            ws == BusWrites(Added)
            n == IF p.command # <<>> THEN 1 ELSE 0
            chunks == [i \in 1..(Len(ws) - n) |-> ws[i + n].bytes]
            sent == Concat(chunks)
            allok == \A i \in 1..Len(ws) : ws[i].ok
        IN  /\ IsPrefix(trace, trace')
            /\ (n = 1 /\ ws # <<>>) =>
                  ws[1].dc = "low" /\ ws[1].bytes = p.command
            /\ \A i \in 1..Len(chunks) :
                  /\ ws[i + n].dc = "high"
                  /\ Len(chunks[i]) \in 1..4096
            /\ IsPrefix(sent, p.data)
            /\ allok => (Len(ws) >= n /\ sent = p.data)
            /\ \A i \in 1..(Len(ws) - 1) : ws[i].ok

\* The codes of the enum Command
Commands ==
    {DataEntryMode, DisplayUpdateSequence, DummyLinePeriod, EnterDeepSleep,
     GSTransition, GateDrivingVoltage, GateLineWidth, GateSetting,
     SetAnalogBlockControl, SetDigitalBlockControl, SetLUT,
     SetRamXPointerStart, SetRamXStartEnd, SetRamYPointerStart,
     SetRamYStartEnd, SoftReset, SourceDrivingVoltage, TriggerDisplayUpdate,
     VComRegister, SetBWBuffer, SetRYBuffer}

CommandsLowDataHigh ==
    \A i \in 1..Len(trace) :
        IsWrite(trace[i]) =>
            /\ trace[i].dc \in {"low", "high"}
            /\ trace[i].dc = "low" =>
                  Len(trace[i].bytes) = 1 /\ trace[i].bytes[1] \in Commands
            /\ trace[i].dc = "high" =>
                  /\ Len(trace[i].bytes) \in 1..4096
                  /\ trace[i].op # "spi_send" =>
                        /\ IsWrite(trace[i - 1]) /\ trace[i - 1].ok
                        /\ \/ trace[i - 1].dc = "low"
                           \/ Len(trace[i - 1].bytes) = 4096

C22_SendFraming == []CommandsLowDataHigh /\ [][SendFraming]_vars

\* A packet of 8193 data bytes sent with its command: 4096, 4096 and 1
C22_Witness ==
    /\ TraceOf("spi_send") /\ Returned(TRUE)
    /\ LET ws == BusWrites(trace)
       IN  /\ Len(ws) = 4 /\ ws[1].dc = "low"
           /\ Len(ws[2].bytes) = 4096 /\ Len(ws[3].bytes) = 4096
           /\ Len(ws[4].bytes) = 1

(***************************************************************************)
(* C23.  Construction from a record whose display variant is not What      *)
(* fails, and no command is sent to the panel.                             *)
(***************************************************************************)
C23_UnsupportedVariantRejected ==
    eeprom.display_variant # "What" =>
        /\ inky # "ok"
        /\ BusWrites(trace) = <<>>
        /\ panel_last = 0

(***************************************************************************)
(* C24.  The calls made by two callers on one controller do not overlap:   *)
(* a call begins only when no call is in flight, every entry of the trace  *)
(* of a call is of the caller that began it, and while the call runs the   *)
(* trace only grows by entries of that call.                               *)
(***************************************************************************)
OneCallTrace ==
    trace # <<>> =>
        /\ trace[1].k = "call"
        /\ \A i \in 1..Len(trace) :
              /\ trace[i].op = trace[1].op /\ trace[i].by = trace[1].by
              /\ trace[i].k = "call" => i = 1
              /\ trace[i].k \in {"return", "panic"} => i = Len(trace)
        /\ Active => (call.op = trace[1].op /\ call.by = trace[1].by)
        /\ Active <=> Last(trace).k \notin {"return", "panic"}

WholeCalls ==
    trace' # trace =>
        \/ Active /\ IsPrefix(trace, trace')
        \/ /\ ~Active /\ trace'[1].k = "call"
           /\ \A i \in 2..Len(trace') : trace'[i].k = "return"
           /\ (trace = <<>> \/ Last(trace).k \in {"return", "panic"})

C24_NoInterleaving == []OneCallTrace /\ [][WholeCalls]_vars

\* The second caller's update() is writing to the bus
C24_Witness ==
    /\ call.op = "update" /\ call.by = 2 /\ call.pc > 3
    /\ Len(BusWrites(trace)) >= 3
    /\ \A i \in 1..Len(trace) : trace[i].by = 2

(***************************************************************************)
(* C25.  update() sends SetRamXStartEnd with the data 0, width div 8 - 1,  *)
(* computed without underflow or truncation, for every width construction  *)
(* accepts.                                                                *)
(***************************************************************************)
C25_RamXWindow ==
    TraceOf("update") =>
        /\ \A i \in 1..Len(trace) : trace[i].k # "panic"
        /\ \A i \in 1..(Len(trace) - 1) :
              (/\ IsCommand(trace[i], SetRamXStartEnd) /\ trace[i].ok
               /\ IsWrite(trace[i + 1])) =>
                  trace[i + 1].bytes = <<0, (canvas.width \div 8) - 1>>

(***************************************************************************)
(* C27.  try_from yields a controller only when its reset() has            *)
(* completed: it returns Ok only after the reset pulse, the write of       *)
(* SoftReset and the busy wait, all successful; when one of them fails it  *)
(* returns the error and no controller.  reset() and update() run only on  *)
(* a controller obtained this way, when the panel has received SoftReset.  *)
(***************************************************************************)
ResetCompleted ==
    LET steps == SelectSeq(trace, IsStep)
    IN  /\ [i \in 1..Len(steps) |-> steps[i].k] = ResetOrder
        /\ \A i \in 1..Len(steps) : steps[i].ok
        /\ steps[5].bytes = <<SoftReset>> /\ steps[5].dc = "low"
        /\ steps[5].rst = "high"

ControllerAfterReset ==
    /\ TraceOf("try_from") =>
          /\ Returned(TRUE) => (ResetCompleted /\ inky = "ok")
          /\ Returned(FALSE) => inky = "failed"
          /\ ~(Returned(TRUE) \/ Returned(FALSE)) => inky = "none"
    /\ inky = "ok" => panel_last # 0
    /\ call.op \in {"reset", "update", "spi_send"} => inky = "ok"
    /\ trace # <<>> /\ trace[1].op \in {"reset", "update"} =>
          \A i \in 1..Len(trace) : trace[i].after # 0

ControllerObtained ==
    (inky' = "ok" /\ inky # "ok") =>
        /\ call.op = "try_from" /\ call' = Idle /\ result' = "ok"
        /\ Last(trace').k = "return" /\ Last(trace').ok

C27_ControllerAfterReset ==
    []ControllerAfterReset /\ [][ControllerObtained]_vars

\* try_from has returned the controller
C27_Witness ==
    /\ TraceOf("try_from") /\ Returned(TRUE) /\ inky = "ok"
    /\ ResetCompleted /\ panel_last = SoftReset

====
